---- MODULE Spec2Model ----
(***************************************************************************)
(* Model of the benchmark engine of bench/scripts/llm_metrics.py:          *)
(*   - LLMBenchmark.run_benchmark: the count-based and the duration-based  *)
(*     driver, their admission semaphore and the gathering of results      *)
(*     (specification Spec);                                               *)
(*   - LLMBenchmark.single_request_streaming: the incremental parser of a  *)
(*     chunked event stream (specification StreamSpec);                    *)
(*   - LLMBenchmark.single_request_non_streaming: one request and the      *)
(*     reading of its JSON body (specification PostSpec);                  *)
(*   - LLMBenchmark._calculate_metrics: the reduction of the collected     *)
(*     results, as the last step of run_benchmark.                         *)
(* FairSpec is Spec with the fairness of the asyncio event loop.           *)
(*                                                                         *)
(* A step of the model is what a coroutine executes between two awaits:    *)
(* under the cooperative scheduling of asyncio nothing else runs in        *)
(* between.  Time is the value of time.perf_counter(), counted in whole    *)
(* seconds; a millisecond value is that number times 1000.  Awaiting the   *)
(* network (a response, its head, a chunk of its body) takes at least one  *)
(* unit of time.                                                           *)
(***************************************************************************)
EXTENDS Integers, Sequences, FiniteSets, TLC

\* ------------------------------------------------------------------ bounds
MaxRequests == 2
MaxConcurrency == 2
MaxDuration == 2
\* the number of requests a duration-based run of the model dispatches at most
MaxDispatch == 2
\* the number of time units a request of a run takes at most, unless the
\* deadline of the run is later
MaxLatency == 1
\* the number of lines of a response body
MaxLines == 2
\* the number of chunks a response body arrives in
MaxChunks == 2
\* the largest usage.completion_tokens of a non-streaming response body
MaxTokens == 2
\* the number of time units a non-streaming response takes at most
MaxWait == 3
\* the longest list handed to percentile, and the greatest number in it
MaxSamples == 3
\* the number of calls of percentile on one list
MaxCalls == 2
\* the number of byte groups in a chunk of two concurrent requests
ChunkSize == 3
\* the longest interval between two requests of run_steady, in units of the
\* drain sleep per unit of concurrency
MaxInterval == 2

\* ------------------------------------------------------- program constants
\* min(concurrency, 50): the upper bound on the number of workers
WorkerLimit == 50

\* Python's None in a numeric Optional field (ttft_ms, first_token_time)
None == -1

\* Python's None in the Optional[str] field error; an error string is a
\* non-empty tuple of its parts
NoError == <<>>

VARIABLES
    mode,          \* "streaming" | "non_streaming"
    concurrency,   \* run_benchmark argument
    max_requests,  \* run_benchmark argument, 0 for None
    duration_sec,  \* run_benchmark argument
    now,           \* time.perf_counter()
    start_time,    \* run_benchmark local
    semaphore,     \* value of asyncio.Semaphore(concurrency)
    task,          \* the coroutines handed to asyncio.gather
    dispatched,    \* number of request executions started so far
    completed,     \* number of request executions finished so far
    results,       \* run_benchmark local: the list handed to the aggregator
    phase,         \* position of run_benchmark
    metrics,       \* what run_benchmark returned: <<>> or <<m>>
    stream,        \* the bytes of the response body of one streaming request,
                   \* or the response to one non-streaming request
    pos,           \* how many of them aiter_bytes has delivered
    request_start, \* single_request_streaming local
    first_token_time, \* single_request_streaming local
    tokens,        \* single_request_streaming local
    buffer,        \* single_request_streaming local
    result,        \* what single_request_streaming returned: <<>> or <<r>>
    spc,           \* position of single_request_streaming
    trace,         \* history of the parse, see NoTrace
    samples,       \* a list handed to percentile, as its caller holds it
    calls,         \* the calls of percentile so far: argument, p, value
    execs,         \* two concurrent calls of single_request_streaming: the
                   \* response, the position in it, the events so far, the
                   \* position of the coroutine and what it returned
    frames,        \* the local variables of those calls
    steady         \* one call of bench_vertex.run_steady: its arguments,
                   \* locals, the worker tasks it created and the file

driverVars == <<mode, concurrency, max_requests, duration_sec, start_time,
                semaphore, task, dispatched, completed, results, phase,
                metrics>>

streamVars == <<stream, pos, request_start, first_token_time, tokens, buffer,
                result, spc, trace>>

statVars == <<samples, calls>>

pairVars == <<execs, frames>>

steadyVars == <<steady>>

vars == <<driverVars, streamVars, statVars, pairVars, steadyVars, now>>

Min(a, b) == IF a < b THEN a ELSE b

\* Python truthiness of an Optional[float]: None and 0.0 are both false
Truthy(x) == x # None /\ x # 0

RECURSIVE GCD(_, _)
GCD(a, b) == IF b = 0 THEN a ELSE GCD(b, a % b)

\* the quotient n / d of two naturals, d > 0, kept exact as a fraction in
\* lowest terms; 0.0 is <<0, 1>>
Ratio(n, d) == LET g == GCD(n, d) IN <<n \div g, d \div g>>

\* the dataclass RequestResult
RequestResult(m, success, ttft_ms, total_time_ms, n, tokens_per_second, error) ==
    [mode |-> m, success |-> success, ttft_ms |-> ttft_ms,
     total_time_ms |-> total_time_ms, tokens_generated |-> n,
     tokens_per_second |-> tokens_per_second, error |-> error]

\* the result returned when response.status_code != 200
HttpErrorResult(m, t0, t, status) ==
    RequestResult(m, FALSE, None, (t - t0) * 1000, 0, Ratio(0, 1),
                  <<"HTTP", status, "text">>)

\* the result returned by the handler `except Exception as e`
ExceptionResult(m, t0, t, e) ==
    RequestResult(m, FALSE, None, (t - t0) * 1000, 0, Ratio(0, 1),
                  <<e>>)

\* a result that reports an answer without tokens as an error
StreamingResultWithError(t0, first, tok, request_end) ==
    RequestResult("streaming", tok > 0,
                  IF Truthy(first) /\ first # t0 THEN (first - t0) * 1000 ELSE None,
                  (request_end - t0) * 1000, tok, Ratio(tok, request_end - t0),
                  IF tok > 0 THEN NoError ELSE <<"no tokens">>)

\* a result whose request_end was read when the response head arrived
StreamingResultAtHead(t0, first, tok, request_end) ==
    LET total_time == 1
        ttft == IF Truthy(first)
                THEN first - t0 ELSE None
    IN  RequestResult("streaming", tok > 0,
                      IF Truthy(ttft) THEN ttft * 1000 ELSE None,
                      total_time * 1000, tok, Ratio(tok, total_time), NoError)

\* a result whose rate is taken per millisecond
StreamingResultPerMillisecond(t0, first, tok, request_end) ==
    LET total_time == request_end - t0
        ttft == IF Truthy(first)
                THEN first - t0 ELSE None
    IN  RequestResult("streaming", tok > 0,
                      IF Truthy(ttft) THEN ttft * 1000 ELSE None,
                      total_time * 1000, tok, Ratio(tok, total_time * 1000),
                      NoError)

\* the result built after the body of a streaming response has been read
StreamingResult(t0, first, tok, request_end) ==
    LET total_time == request_end - t0
        ttft == IF Truthy(first)
                THEN first - t0 ELSE None
        tokens_per_sec == IF total_time > 0 THEN Ratio(tok, total_time)
                          ELSE Ratio(0, 1)
    IN  RequestResult("streaming", tok > 0,
                      IF Truthy(ttft) THEN ttft * 1000 ELSE None,
                      total_time * 1000, tok, tokens_per_sec, NoError)

\* a result that calls every answered request a success
NonStreamingResultByStatus(t0, completion_tokens, request_end) ==
    RequestResult("non_streaming", TRUE, None, (request_end - t0) * 1000,
                  completion_tokens, Ratio(completion_tokens, request_end - t0),
                  NoError)

\* the result built from the JSON body of a non-streaming response
NonStreamingResult(t0, completion_tokens, request_end) ==
    LET total_time == request_end - t0
        tokens_per_sec == IF total_time > 0
                          THEN Ratio(completion_tokens, total_time)
                          ELSE Ratio(0, 1)
    IN  RequestResult("non_streaming", completion_tokens > 0, None,
                      total_time * 1000, completion_tokens, tokens_per_sec,
                      NoError)

\* ------------------------------------------------------- streaming parser
\* A response body is a sequence of byte groups:
\*   "NL"     the newline
\*   "SP"     a space
\*   "data: " the stream-data marker
\*   "[DONE]" the termination sentinel
\*   "{c:"    {"choices":[{"delta":{"content":"
\*   "}"      "}}]}
\*   "}fin"   "},"finish_reason":"stop"}]}
\*   "w"      a letter
\*   "hi","lo" the two bytes of one two-byte UTF-8 character
\*   "5"      a JSON value that is not an object
\*   "{}"     a JSON object without choices
\*   ":"      a comment, which is not JSON
\* A chunk boundary may fall between any two byte groups.

RECURSIVE decode(_)
\* chunk.decode('utf-8', errors='ignore'): a complete two-byte character
\* becomes the character "U"; a lead byte without its continuation byte, and
\* a continuation byte without its lead byte, are dropped
decode(b) ==
    IF b = <<>> THEN <<>>
    ELSE IF b[1] = "hi"
         THEN IF Len(b) >= 2 /\ b[2] = "lo"
              THEN <<"U">> \o decode(SubSeq(b, 3, Len(b)))
              ELSE decode(Tail(b))
         ELSE IF b[1] = "lo" THEN decode(Tail(b))
         ELSE <<b[1]>> \o decode(Tail(b))

RECURSIVE strip(_)
\* str.strip(): leading and trailing whitespace removed
strip(str) ==
    IF str = <<>> THEN <<>>
    ELSE IF str[1] = "SP" THEN strip(Tail(str))
    ELSE IF str[Len(str)] = "SP" THEN strip(SubSeq(str, 1, Len(str) - 1))
    ELSE str

\* len(content.split()): the number of whitespace-delimited words
split_len(content) ==
    Cardinality({i \in 1..Len(content) :
                    /\ content[i] # "SP"
                    /\ (i = 1 \/ content[i - 1] = "SP")})

\* new_tokens = len(content.split()) if content.split()
\*              else (1 if content.strip() else 0)
new_tokens(content) ==
    IF split_len(content) # 0 THEN split_len(content)
    ELSE IF strip(content) # <<>> THEN 1 ELSE 0

\* the index of the first newline of the buffer, 0 when there is none
find_newline(buf) ==
    IF \E i \in 1..Len(buf) : buf[i] = "NL"
    THEN CHOOSE i \in 1..Len(buf) :
             buf[i] = "NL" /\ \A j \in 1..(i - 1) : buf[j] # "NL"
    ELSE 0

\* json.loads followed by the lookups of choices, delta, content and
\* finish_reason:
\*   "error"   json.JSONDecodeError
\*   "nondict" a JSON value without .get: data.get raises AttributeError
\*   "skip"    an object whose choices are absent or empty
\*   "event"   an object with choices[0].delta.content and finish_reason
json_loads(json_str) ==
    LET js == strip(json_str)
        n  == Len(js)
    IN  IF js = <<"5">> THEN [kind |-> "nondict", content |-> <<>>, finish |-> FALSE]
        ELSE IF js = <<"{}">> THEN [kind |-> "skip", content |-> <<>>, finish |-> FALSE]
        ELSE IF /\ n >= 2
                /\ js[1] = "{c:"
                /\ js[n] \in {"}", "}fin"}
                /\ \A i \in 2..(n - 1) : js[i] \in {"w", "SP", "U"}
        THEN [kind |-> "event", content |-> SubSeq(js, 2, n - 1),
              finish |-> js[n] = "}fin"]
        ELSE [kind |-> "error", content |-> <<>>, finish |-> FALSE]

\* history of one parse: the number of chunks read, the number of lines
\* taken from the buffer, the number of assignments to first_token_time, the
\* line of the latest one and the number of words of its content, and,
\* for the first `break`, its cause and the values of tokens and
\* first_token_time at that moment
NoTrace == [chunks |-> 0, lines |-> 0, first_sets |-> 0, first_line |-> 0,
            first_words |-> 0,
            stop |-> "", stop_tokens |-> 0, stop_first |-> None]

Stopped(tr, cause, tok, first) ==
    IF tr.stop # "" THEN tr
    ELSE [tr EXCEPT !.stop = cause, !.stop_tokens = tok, !.stop_first = first]

\* a test that forgets whether first_token_time has been set
SetsFirstTokenAlways(content, first) == content # <<>>

\* `if content and first_token_time is None:`
SetsFirstToken(content, first) == content # <<>> /\ first = None

RECURSIVE process_lines(_, _)
\* `while '\n' in buffer:` with its body, at clock value t.  st holds buffer,
\* tokens, first_token_time, the history, and raised: whether an exception
\* other than json.JSONDecodeError left the loop.  `break` leaves this loop
\* and keeps what is left in the buffer.
process_lines(st, t) ==
    LET nl == find_newline(st.buffer)
    IN  IF nl = 0 THEN st
        ELSE
        LET line == strip(SubSeq(st.buffer, 1, nl - 1))
            rest == SubSeq(st.buffer, nl + 1, Len(st.buffer))
            tr   == [st.trace EXCEPT !.lines = @ + 1]
            s1   == [st EXCEPT !.buffer = rest, !.trace = tr]
        IN  IF line = <<>> THEN process_lines(s1, t)
            ELSE IF line = <<"data: ", "[DONE]">>
            THEN [s1 EXCEPT !.trace = Stopped(tr, "sentinel", st.tokens,
                                              st.first_token_time)]
            ELSE
            LET json_str == IF line[1] = "data: " THEN Tail(line) ELSE line
                data     == json_loads(json_str)
            IN  IF data.kind = "error" THEN process_lines(s1, t)
                ELSE IF data.kind = "nondict" THEN [s1 EXCEPT !.raised = TRUE]
                ELSE IF data.kind = "skip" THEN process_lines(s1, t)
                ELSE
                LET content == data.content
                    sets    == SetsFirstToken(content, st.first_token_time)
                    first   == IF sets THEN t ELSE st.first_token_time
                    tok     == IF content # <<>>
                               THEN st.tokens + new_tokens(content)
                               ELSE st.tokens
                    tr2     == IF sets
                               THEN [tr EXCEPT !.first_sets = @ + 1,
                                               !.first_line = tr.lines,
                                               !.first_words = split_len(content)]
                               ELSE tr
                    s2      == [s1 EXCEPT !.first_token_time = first,
                                          !.tokens = tok, !.trace = tr2]
                IN  IF data.finish
                    THEN [s2 EXCEPT !.trace = Stopped(tr2, "finish", tok, first)]
                    ELSE process_lines(s2, t)

\* the body of `async for chunk in response.aiter_bytes(...)` for one chunk
process_chunk(st, chunk, t) ==
    process_lines([st EXCEPT !.buffer = @ \o decode(chunk),
                             !.trace.chunks = @ + 1], t)

\* the lines a response body is made of: a one-word event, an event whose
\* content is one space, an event whose content is one two-byte character, a
\* two-word event with a finish_reason, the sentinel, a JSON number, a
\* comment, an event without the marker and with empty content, and the
\* empty line
LineKinds ==
    {<<"data: ", "{c:", "w", "}">>,
     <<"data: ", "{c:", "SP", "}">>,
     <<"data: ", "{c:", "hi", "lo", "}">>,
     <<"data: ", "{c:", "w", "SP", "w", "}fin">>,
     <<"data: ", "[DONE]">>,
     <<"data: ", "5">>,
     <<":">>,
     <<"{c:", "}">>,
     <<>>}

RECURSIVE Join(_)
\* the lines, each followed by a newline
Join(ls) == IF ls = <<>> THEN <<>> ELSE ls[1] \o <<"NL">> \o Join(Tail(ls))

\* the response bodies: up to MaxLines lines, each ended by a newline, or
\* fewer lines followed by a one-word event that lacks its newline
Bodies ==
    {Join(ls) : ls \in UNION {[1..n -> LineKinds] : n \in 0..MaxLines}}
    \cup {Join(ls) \o <<"data: ", "{c:", "w", "}">> :
             ls \in UNION {[1..n -> LineKinds] : n \in 0..(MaxLines - 1)}}

\* the variables of the percentile calculator while no call is modelled,
\* and those of the two concurrent calls while they are not modelled
StatIdle ==
    /\ samples = <<>>
    /\ calls = <<>>
    /\ execs = <<>>
    /\ frames = <<>>
    /\ steady = <<>>

\* the variables of the streaming executor while no request is modelled
StreamIdle ==
    /\ stream = <<>>
    /\ pos = 0
    /\ request_start = 0
    /\ first_token_time = None
    /\ tokens = 0
    /\ buffer = <<>>
    /\ result = <<>>
    /\ spc = "idle"
    /\ trace = NoTrace

\* ------------------------------------------------------------------ driver
\* what the endpoint does with one request: exc is the exception raised by
\* the transport ("" for none; a read timeout stands for every
\* httpx.TransportError), status the HTTP status, tokens the number of tokens
\* the body yields, content whether a streamed body holds an event whose
\* content is not empty
Response(exc, status, tok, content) ==
    [exc |-> exc, status |-> status, tokens |-> tok, content |-> content]

Responses ==
    {Response("", 200, 2, TRUE),
     Response("", 200, 0, FALSE),
     Response("", 500, 0, FALSE),
     Response("ReadTimeout", 0, 0, FALSE)}

\* what the endpoint may do with a request of mode m: the count
\* usage.completion_tokens of a non-streaming body is whatever the endpoint
\* sends, a negative number included, while the tokens of a streamed body
\* are counted by the executor, which counts none for a body whose only
\* content is whitespace; the read of a streamed body may time out after
\* content has been counted
ResponsesOf(m) ==
    IF m = "non_streaming"
    THEN Responses \cup {Response("", 200, -1, FALSE)}
    ELSE Responses \cup {Response("", 200, 0, TRUE),
                         Response("ReadTimeout", 200, 2, TRUE)}

\* a handler that lets a read timeout escape
CatchesNoTimeout(e) == e # "ReadTimeout"

\* `except Exception`: every transport error and timeout is caught
Catches(e) == TRUE

\* `response.text` inside `client.stream(...)`: the body of a streamed
\* response has not been read, so the access raises httpx.ResponseNotRead,
\* which the handler `except Exception` turns into a result; client.post
\* returns a response whose body has been read
ResponseTextReadable(m) == m # "streaming"

\* an executor whose handler reports what had been counted and seen before
\* the exception
single_request_partial(m, resp, t0, t) ==
    IF resp.exc # ""
    THEN [raised |-> FALSE,
          result |-> RequestResult(m, FALSE,
                                   IF resp.content THEN (t - t0) * 1000 ELSE None,
                                   (t - t0) * 1000, resp.tokens,
                                   Ratio(resp.tokens, t - t0), <<resp.exc>>)]
    ELSE [raised |-> FALSE,
          result |-> IF m = "streaming"
                     THEN StreamingResult(t0, IF resp.content THEN t ELSE None,
                                          resp.tokens, t)
                     ELSE NonStreamingResult(t0, resp.tokens, t)]

\* one call of single_request_streaming / single_request_non_streaming that
\* was dispatched at request_start and whose response is complete at t
single_request(m, resp, t0, t) ==
    IF resp.exc # ""
    THEN [raised |-> ~Catches(resp.exc),
          result |-> ExceptionResult(m, t0, t, resp.exc)]
    ELSE IF resp.status # 200
    THEN [raised |-> FALSE,
          result |-> IF ResponseTextReadable(m)
                     THEN HttpErrorResult(m, t0, t, resp.status)
                     ELSE ExceptionResult(m, t0, t, "ResponseNotRead")]
    ELSE [raised |-> FALSE,
          result |-> IF m = "streaming"
                     THEN StreamingResult(t0,
                                          IF resp.content THEN t ELSE None,
                                          resp.tokens, t)
                     ELSE NonStreamingResult(t0, resp.tokens, t)]

\* `if max_requests:` selects the request-count based test
CountBased == max_requests # 0

\* end_time = start_time + duration_sec
end_time == start_time + duration_sec

\* the message of the ValueError that asyncio.Semaphore raises
SemaphoreValueError == "ValueError: Semaphore initial value must be >= 0"

\* asyncio.Semaphore(concurrency) raises ValueError on a negative value;
\* nothing in run_benchmark or in main checks the value before
semaphore_raises(value) == value < 0

\* a worker for every unit of concurrency, however many
NumTasksUncapped(n, c) ==
    IF semaphore_raises(c) THEN 0
    ELSE IF n # 0 THEN n ELSE c

\* the number of coroutines handed to asyncio.gather: none when the
\* construction of the semaphore has raised
NumTasks(n, c) ==
    IF semaphore_raises(c) THEN 0
    ELSE IF n # 0 THEN n ELSE Min(c, WorkerLimit)

Tasks == 1..NumTasks(max_requests, concurrency)

\* a gate that admits whatever its value
CanAcquireUngated(value) == TRUE

\* a gate that admits a batch: it opens when every permit has come back
CanAcquireBatch(value) == value > 0 /\ value = concurrency

\* `async with semaphore`: the gate admits while its value is positive
CanAcquire(value) == value > 0

\* a deadline test that is off by one
WorkerContinuesInclusive(t, deadline) == t <= deadline

\* `while time.perf_counter() < end_time`
WorkerContinues(t, deadline) == t < deadline

\* a wait that returns at the first completed awaitable
GatherReadyFirst(tk) == \E t \in DOMAIN tk : tk[t].pc = "returned"

\* asyncio.gather returns once every awaitable has returned
GatherReady(tk) == \A t \in DOMAIN tk : tk[t].pc = "returned"

RECURSIVE Flatten(_, _)
\* `for worker_result_list in worker_results: results.extend(...)`
Flatten(tk, n) == IF n = 0 THEN <<>> ELSE Flatten(tk, n - 1) \o tk[n].ret

\* a collection that lists the results as they complete
gatherAsCompleted(tk) ==
    LET flat == Flatten(tk, Len(tk))
    IN  [k \in 1..Len(flat) |->
            CHOOSE e \in {flat[i] : i \in 1..Len(flat)} :
                Cardinality({j \in 1..Len(flat) : flat[j].seq < e.seq}) = k - 1]

\* a collection that keeps the results of the requests that succeeded
gatherSuccessful(tk) ==
    SelectSeq(Flatten(tk, Len(tk)), LAMBDA e : e.res.success)

\* asyncio.gather(*tasks): the return values in the order of the awaitables
gather(tk) == Flatten(tk, Len(tk))

\* a request execution that has been dispatched and has not completed
InFlight == {t \in Tasks : task[t].pc = "inflight"}

\* book-keeping attached to a result: the response it was built from, the
\* coroutine that produced it, its dispatch number, its completion number and
\* whether it completed when the deadline had been reached
Entry(res, resp, t, id, seq, late) ==
    [res |-> res, resp |-> resp, task |-> t, id |-> id, seq |-> seq,
     late |-> late]

Dispatch(tk, t) ==
    [tk EXCEPT ![t].pc = "inflight", ![t].start = now,
               ![t].id = dispatched + 1]

\* the values of the argument concurrency: --concurrency is any integer
Concurrencies == -1..MaxConcurrency

\* run_benchmark up to its first await; semaphore is the value handed to
\* asyncio.Semaphore, whose refusal of it leaves run_benchmark at once
Init ==
    /\ mode \in {"streaming", "non_streaming"}
    /\ concurrency \in Concurrencies
    /\ max_requests \in 0..MaxRequests
    /\ duration_sec \in 0..MaxDuration
    /\ (max_requests # 0 => duration_sec = 0)
    /\ now = 1
    /\ start_time = 1
    /\ semaphore = concurrency
    /\ task = [t \in 1..NumTasks(max_requests, concurrency) |->
                 [pc |-> "pending", start |-> 0, id |-> 0, ret |-> <<>>]]
    /\ dispatched = 0
    /\ completed = 0
    /\ results = <<>>
    /\ phase = IF semaphore_raises(concurrency) THEN SemaphoreValueError
               ELSE "running"
    /\ metrics = <<>>
    /\ StreamIdle
    /\ StatIdle

RECURSIVE sum(_)
\* sum(...) over a list of integers
sum(data) == IF data = <<>> THEN 0 ELSE data[1] + sum(Tail(data))

\* Python's None in an Optional[float] field of AggregateMetrics; a number is
\* a fraction <<n, d>>
Absent == <<>>

\* float arithmetic on fractions, kept exact
Num(x) == Ratio(x, 1)
Plus(a, b) == Ratio(a[1] * b[2] + b[1] * a[2], a[2] * b[2])
Minus(a, b) == Ratio(a[1] * b[2] - b[1] * a[2], a[2] * b[2])
Times(a, b) == Ratio(a[1] * b[1], a[2] * b[2])
Less(a, b) == a[1] * b[2] < b[1] * a[2]

RECURSIVE fsum(_)
\* the sum of a list of fractions
fsum(data) == IF data = <<>> THEN Num(0) ELSE Plus(data[1], fsum(Tail(data)))

\* statistics.mean of a non-empty list
mean(data) == Times(fsum(data), Ratio(1, Len(data)))

\* a mean that is taken whatever the list: statistics.mean raises
\* StatisticsError on an empty list
mean_unguarded(data, default) ==
    IF data = <<>> THEN [raised |-> "StatisticsError", value |-> default]
    ELSE [raised |-> "", value |-> mean(data)]

\* `mean(data) if data else default`
mean_or(data, default) ==
    IF data # <<>> THEN [raised |-> "", value |-> mean(data)]
    ELSE [raised |-> "", value |-> default]

\* `x / duration_sec if duration_sec > 0 else 0`
per_second(x, duration) == IF duration > 0 THEN Ratio(x, duration) ELSE Ratio(0, 1)

\* a list that is left in the order in which it came
unsorted(data) == data

\* sorted(data): a new list, in ascending order
sorted(data) == SortSeq(data, Less)

\* a percentile that takes the sample below the rank, without interpolation
percentile_lower(data, p) ==
    IF data = <<>> THEN Absent
    ELSE sorted(data)[(((Len(data) - 1) * p) \div 100) + 1]

\* the nested function percentile(data, p) of _calculate_metrics; the lists
\* of Python are indexed from 0, the sequences of the model from 1
percentile(data, p) ==
    IF data = <<>> THEN Absent
    ELSE LET sorted_data == sorted(data)
             index  == Ratio((Len(sorted_data) - 1) * p, 100)
             lower  == index[1] \div index[2]
             upper  == Min(lower + 1, Len(sorted_data) - 1)
             weight == Minus(index, Num(lower))
         IN  Plus(Times(sorted_data[lower + 1], Minus(Num(1), weight)),
                  Times(sorted_data[upper + 1], weight))

\* a value passed on as it is
or_zero_omitted(x) == x

\* `x or 0`: None and 0.0 both give 0
or_zero(x) == IF x = Absent \/ x = Num(0) THEN Num(0) ELSE x

\* a rate that is left as a fraction of 1
success_rate_fraction(successful, total) ==
    IF total # 0 THEN Ratio(successful, total) ELSE Num(0)

\* `len(successful) / len(results) * 100 if results else 0`
success_rate(successful, total) ==
    IF total # 0 THEN Times(Ratio(successful, total), Num(100)) ELSE Num(0)

\* the list comprehension [f(r) for r in rs if keep(r)]
Comprehension(rs, f(_), keep(_)) ==
    LET kept == SelectSeq(rs, keep) IN [i \in 1..Len(kept) |-> f(kept[i])]

\* a list of the TTFT values of every result that has one
ttft_times_of_all(rs, successful) ==
    Comprehension(rs, LAMBDA e : Num(e.res.ttft_ms),
                  LAMBDA e : e.res.ttft_ms # None)

\* `ttft_times = [r.ttft_ms for r in successful if r.ttft_ms is not None]`
ttft_times_of(rs, successful) ==
    Comprehension(successful, LAMBDA e : Num(e.res.ttft_ms),
                  LAMBDA e : e.res.ttft_ms # None)

\* `successful = [r for r in results if r.success]`
successful_of(rs) == SelectSeq(rs, LAMBDA e : e.res.success)

\* a list of the results that carry an error string
failed_of_errors(rs) == SelectSeq(rs, LAMBDA e : e.res.error # NoError)

\* `failed = [r for r in results if not r.success]`
failed_of(rs) == SelectSeq(rs, LAMBDA e : ~e.res.success)

\* a total taken over every result
total_tokens_of_all(rs, successful) ==
    sum(Comprehension(rs, LAMBDA e : e.res.tokens_generated, LAMBDA e : TRUE))

\* `sum(r.tokens_generated for r in successful)`
total_tokens_of(rs, successful) ==
    sum(Comprehension(successful, LAMBDA e : e.res.tokens_generated,
                      LAMBDA e : TRUE))

\* _calculate_metrics(results, duration_sec, mode): raised is the exception
\* that leaves the method, "" for none, and value the AggregateMetrics it
\* returns
calculate_metrics(rs, duration, m) ==
    LET successful  == successful_of(rs)
        failed      == failed_of(rs)
        total_times == Comprehension(successful,
                           LAMBDA e : Num(e.res.total_time_ms),
                           LAMBDA e : TRUE)
        ttft_times  == ttft_times_of(rs, successful)
        tokens_per_sec == Comprehension(successful,
                           LAMBDA e : e.res.tokens_per_second,
                           LAMBDA e : Less(Num(0), e.res.tokens_per_second))
        total_tokens == total_tokens_of(rs, successful)
        avg         == mean_or(total_times, Num(0))
        avg_ttft    == mean_or(ttft_times, Absent)
        avg_tps     == mean_or(tokens_per_sec, Num(0))
    IN  IF rs = <<>> THEN [raised |-> "ValueError", value |-> <<>>]
        ELSE IF avg.raised # "" THEN [raised |-> avg.raised, value |-> <<>>]
        ELSE [raised |-> "",
              value |-> [mode |-> m,
                         total_requests |-> Len(rs),
                         successful_requests |-> Len(successful),
                         failed_requests |-> Len(failed),
                         success_rate |-> success_rate(Len(successful), Len(rs)),
                         avg_total_time_ms |-> avg.value,
                         p50_total_time_ms |-> or_zero(percentile(total_times, 50)),
                         p95_total_time_ms |-> or_zero(percentile(total_times, 95)),
                         p99_total_time_ms |-> or_zero(percentile(total_times, 99)),
                         avg_ttft_ms |-> avg_ttft.value,
                         p50_ttft_ms |-> IF ttft_times # <<>>
                                         THEN percentile(ttft_times, 50)
                                         ELSE Absent,
                         p95_ttft_ms |-> IF ttft_times # <<>>
                                         THEN percentile(ttft_times, 95)
                                         ELSE Absent,
                         avg_tokens_per_second |-> avg_tps.value,
                         p50_tokens_per_second |->
                             or_zero(percentile(tokens_per_sec, 50)),
                         p95_tokens_per_second |->
                             or_zero(percentile(tokens_per_sec, 95)),
                         total_tokens_generated |-> total_tokens,
                         requests_per_second |-> per_second(Len(rs), duration),
                         total_duration_sec |-> duration,
                         aggregate_tokens_per_second |->
                             per_second(total_tokens, duration)]]

\* make_request up to its await of the executor: enter the semaphore and
\* dispatch the request
make_request_start(t) ==
    /\ phase = "running"
    /\ CountBased
    /\ task[t].pc = "pending"
    /\ CanAcquire(semaphore)
    /\ semaphore' = semaphore - 1
    /\ task' = Dispatch(task, t)
    /\ dispatched' = dispatched + 1
    /\ UNCHANGED <<steadyVars, pairVars, statVars, streamVars, metrics, mode, concurrency, max_requests, duration_sec, now,
                   start_time, completed, results, phase>>

\* make_request after the executor has returned: leave the semaphore and
\* return the result
make_request_finish(t, resp) ==
    /\ phase = "running"
    /\ CountBased
    /\ task[t].pc = "inflight"
    /\ now > task[t].start
    /\ LET r == single_request(mode, resp, task[t].start, now)
       IN  /\ semaphore' = semaphore + 1
           /\ completed' = completed + 1
           /\ IF r.raised
              THEN /\ task' = [task EXCEPT ![t].pc = "raised"]
                   /\ phase' = "raised"
              ELSE /\ task' = [task EXCEPT
                        ![t].pc = "returned",
                        ![t].ret = <<Entry(r.result, resp, t, task[t].id,
                                           completed + 1, now >= end_time)>>]
                   /\ phase' = phase
    /\ UNCHANGED <<steadyVars, pairVars, statVars, streamVars, metrics, mode, concurrency, max_requests, duration_sec, now,
                   start_time, dispatched, results>>

\* worker from its start to its first await: test the deadline, and either
\* return or enter the semaphore and dispatch a request
worker_start(t) ==
    /\ phase = "running"
    /\ ~CountBased
    /\ task[t].pc = "pending"
    /\ IF WorkerContinues(now, end_time)
       THEN /\ CanAcquire(semaphore)
            /\ semaphore' = semaphore - 1
            /\ task' = Dispatch(task, t)
            /\ dispatched' = dispatched + 1
       ELSE /\ task' = [task EXCEPT ![t].pc = "returned"]
            /\ UNCHANGED <<semaphore, dispatched>>
    /\ UNCHANGED <<steadyVars, pairVars, statVars, streamVars, metrics, mode, concurrency, max_requests, duration_sec, now,
                   start_time, completed, results, phase>>

\* worker from the return of the executor to its next await: append the
\* result, leave the semaphore, test the deadline, and either return or enter
\* the semaphore again and dispatch the next request
worker_resume(t, resp) ==
    /\ phase = "running"
    /\ ~CountBased
    /\ task[t].pc = "inflight"
    /\ now > task[t].start
    /\ (WorkerContinues(now, end_time) => dispatched < MaxDispatch)
    /\ LET r == single_request(mode, resp, task[t].start, now)
           appended == [task EXCEPT
                        ![t].ret = @ \o <<Entry(r.result, resp, t, task[t].id,
                                                completed + 1, now >= end_time)>>]
       IN  /\ completed' = completed + 1
           /\ IF r.raised
              THEN /\ task' = [task EXCEPT ![t].pc = "raised"]
                   /\ phase' = "raised"
                   /\ semaphore' = semaphore + 1
                   /\ dispatched' = dispatched
              ELSE /\ phase' = phase
                   /\ IF WorkerContinues(now, end_time)
                      THEN /\ CanAcquire(semaphore + 1)
                           /\ semaphore' = semaphore
                           /\ task' = Dispatch(appended, t)
                           /\ dispatched' = dispatched + 1
                      ELSE /\ semaphore' = semaphore + 1
                           /\ task' = [appended EXCEPT ![t].pc = "returned"]
                           /\ dispatched' = dispatched
    /\ UNCHANGED <<steadyVars, pairVars, statVars, streamVars, metrics, mode, concurrency, max_requests, duration_sec, now,
                   start_time, results>>

\* what a call hands to its caller: the value it returns, or nothing when it
\* raises
Returned(call) == IF call.raised # "" THEN <<>> ELSE <<call.value>>

\* run_benchmark after asyncio.gather has returned: collect the results and
\* call _calculate_metrics, which raises ValueError on an empty list and
\* otherwise returns the AggregateMetrics that run_benchmark returns
run_benchmark_return ==
    /\ phase = "running"
    /\ GatherReady(task)
    /\ results' = gather(task)
    /\ metrics' = Returned(calculate_metrics(gather(task), now - start_time, mode))
    /\ phase' = IF metrics' # <<>> THEN "returned"
                ELSE calculate_metrics(gather(task), now - start_time, mode).raised
    /\ UNCHANGED <<steadyVars, pairVars, statVars, streamVars, mode, concurrency, max_requests, duration_sec, now,
                   start_time, semaphore, task, dispatched, completed>>

\* a coroutine that has not run yet and can run up to its first await of
\* the network: the event loop runs it before it waits for the network
Ready(t) ==
    /\ task[t].pc = "pending"
    /\ IF CountBased THEN CanAcquire(semaphore)
       ELSE WorkerContinues(now, end_time) => CanAcquire(semaphore)

\* the clock advances, once every coroutine awaits the network or the
\* semaphore; the clock of the model runs freely up to the deadline
\* of a duration-based run, and otherwise only as long as a request in
\* flight may take
Tick ==
    /\ phase = "running"
    /\ \A t \in Tasks : ~Ready(t)
    /\ now < end_time \/ \E t \in InFlight : now - task[t].start < MaxLatency
    /\ now' = now + 1
    /\ UNCHANGED <<steadyVars, pairVars, statVars, streamVars, metrics, mode, concurrency, max_requests, duration_sec, start_time,
                   semaphore, task, dispatched, completed, results, phase>>

Next ==
    \/ \E t \in Tasks : make_request_start(t)
    \/ \E t \in Tasks : \E resp \in ResponsesOf(mode) : make_request_finish(t, resp)
    \/ \E t \in Tasks : worker_start(t)
    \/ \E t \in Tasks : \E resp \in ResponsesOf(mode) : worker_resume(t, resp)
    \/ run_benchmark_return
    \/ Tick

Spec == Init /\ [][Next]_vars

\* ------------------------------------------------- one streaming request
\* the variables of the driver while a single request is modelled
DriverIdle ==
    /\ mode = "streaming"
    /\ concurrency = 0
    /\ max_requests = 0
    /\ duration_sec = 0
    /\ start_time = 0
    /\ semaphore = 0
    /\ task = <<>>
    /\ dispatched = 0
    /\ completed = 0
    /\ results = <<>>
    /\ phase = "idle"
    /\ metrics = <<>>

\* single_request_streaming up to its first await: request_start is read
\* and the request is dispatched
StreamInit ==
    /\ DriverIdle
    /\ stream \in Bodies
    /\ pos = 0
    /\ now = 1
    /\ request_start = 1
    /\ first_token_time = None
    /\ tokens = 0
    /\ buffer = <<>>
    /\ result = <<>>
    /\ spc = "head"
    /\ trace = NoTrace
    /\ StatIdle

\* the response head arrives: a status other than 200 ends the request
response_head(status) ==
    /\ spc = "head"
    /\ now' = now + 1
    /\ IF status # 200
       THEN /\ result' = <<IF ResponseTextReadable("streaming")
                           THEN HttpErrorResult("streaming", request_start,
                                                now', status)
                           ELSE ExceptionResult("streaming", request_start,
                                                now', "ResponseNotRead")>>
            /\ spc' = "http_error"
       ELSE /\ result' = result
            /\ spc' = "body"
    /\ UNCHANGED <<steadyVars, pairVars, statVars, driverVars, stream, pos, request_start, first_token_time,
                   tokens, buffer, trace>>

\* aiter_bytes delivers the next n byte groups of the body and the loop body
\* runs on them
read_chunk(n) ==
    /\ spc = "body"
    /\ n >= 1
    /\ pos + n <= Len(stream)
    /\ trace.chunks + 1 < MaxChunks \/ pos + n = Len(stream)
    /\ now' = now + 1
    /\ pos' = pos + n
    /\ LET st == process_chunk([buffer |-> buffer, tokens |-> tokens,
                                first_token_time |-> first_token_time,
                                trace |-> trace, raised |-> FALSE],
                               SubSeq(stream, pos + 1, pos + n), now')
       IN  /\ buffer' = st.buffer
           /\ tokens' = st.tokens
           /\ first_token_time' = st.first_token_time
           /\ trace' = st.trace
           /\ IF st.raised
              THEN /\ result' = <<ExceptionResult("streaming", request_start,
                                                  now', "AttributeError")>>
                   /\ spc' = "done"
              ELSE /\ result' = result
                   /\ spc' = spc
    /\ UNCHANGED <<steadyVars, pairVars, statVars, driverVars, stream, request_start>>

\* an end of the body that first reads what is left in the buffer as a line
end_of_body_flush ==
    /\ spc = "body"
    /\ pos = Len(stream)
    /\ now' = now + 1
    /\ LET st == process_lines([buffer |-> buffer \o <<"NL">>, tokens |-> tokens,
                                first_token_time |-> first_token_time,
                                trace |-> trace, raised |-> FALSE], now')
       IN  result' = <<StreamingResult(request_start, st.first_token_time,
                                       st.tokens, now')>>
    /\ spc' = "done"
    /\ UNCHANGED <<steadyVars, pairVars, statVars, driverVars, stream, pos, request_start,
                   first_token_time, tokens, buffer, trace>>

\* aiter_bytes is exhausted: the result is built from the locals
end_of_body ==
    /\ spc = "body"
    /\ pos = Len(stream)
    /\ now' = now + 1
    /\ result' = <<StreamingResult(request_start, first_token_time, tokens,
                                   now')>>
    /\ spc' = "done"
    /\ UNCHANGED <<steadyVars, pairVars, statVars, driverVars, stream, pos, request_start, first_token_time,
                   tokens, buffer, trace>>

\* the transport fails or times out while the head or a chunk is awaited
transport_failure(e) ==
    /\ spc \in {"head", "body"}
    /\ now' = now + 1
    /\ result' = <<ExceptionResult("streaming", request_start, now', e)>>
    /\ spc' = "failed"
    /\ UNCHANGED <<steadyVars, pairVars, statVars, driverVars, stream, pos, request_start, first_token_time,
                   tokens, buffer, trace>>

StreamNext ==
    \/ \E status \in {200, 500} : response_head(status)
    \/ \E n \in 1..Len(stream) : read_chunk(n)
    \/ end_of_body
    \/ \E e \in {"ReadTimeout"} : transport_failure(e)

StreamSpec == StreamInit /\ [][StreamNext]_vars

\* --------------------------------------------- one non-streaming request
\* The JSON body of a non-streaming response:
\*   json     "object", "nondict" (a JSON value that is not an object) or
\*            "notjson" (response.json() raises)
\*   usage    "absent", "null" or "object"
\*   ct_kind  "absent", "null" or "number": the field completion_tokens
\*   ct       its value when it is a number
JsonBody(json, usage, ct_kind, ct) ==
    [json |-> json, usage |-> usage, ct_kind |-> ct_kind, ct |-> ct]

JsonBodies ==
    {JsonBody("notjson", "absent", "absent", 0),
     JsonBody("nondict", "absent", "absent", 0),
     JsonBody("object", "absent", "absent", 0),
     JsonBody("object", "null", "absent", 0),
     JsonBody("object", "object", "absent", 0),
     JsonBody("object", "object", "null", 0)}
    \cup {JsonBody("object", "object", "number", n) : n \in 0..MaxTokens}

\* what the endpoint does with one non-streaming request
PostResponses ==
    {[exc |-> "ReadTimeout", status |-> 0,
      body |-> JsonBody("notjson", "absent", "absent", 0)]}
    \cup {[exc |-> "", status |-> st, body |-> b] :
             st \in {200, 500}, b \in JsonBodies}

\* a lookup whose default is 1
get_completion_tokens_default_one(body) ==
    IF body.usage = "object" /\ body.ct_kind # "absent" THEN body.ct ELSE 1

\* data.get("usage", {}).get("completion_tokens", 0) where nothing raises
get_completion_tokens(body) ==
    IF body.usage = "object" /\ body.ct_kind # "absent" THEN body.ct ELSE 0

\* the exception raised between response.json() and the construction of the
\* result, "" for none: response.json() on text that is not JSON, .get on a
\* value that is not an object, `completion_tokens > 0` on None
json_exception(body) ==
    IF body.json = "notjson" THEN "JSONDecodeError"
    ELSE IF body.json = "nondict" \/ body.usage = "null" THEN "AttributeError"
    ELSE IF body.usage = "object" /\ body.ct_kind = "null" THEN "TypeError"
    ELSE ""

\* single_request_non_streaming for a request dispatched at t0 whose
\* response, or transport failure, arrives at t
single_request_non_streaming(resp, t0, t) ==
    IF resp.exc # "" THEN ExceptionResult("non_streaming", t0, t, resp.exc)
    ELSE IF resp.status # 200
    THEN HttpErrorResult("non_streaming", t0, t, resp.status)
    ELSE IF json_exception(resp.body) # ""
    THEN ExceptionResult("non_streaming", t0, t, json_exception(resp.body))
    ELSE NonStreamingResult(t0, get_completion_tokens(resp.body), t)

\* single_request_non_streaming up to its await of client.post
PostInit ==
    /\ mode = "non_streaming"
    /\ concurrency = 0
    /\ max_requests = 0
    /\ duration_sec = 0
    /\ start_time = 0
    /\ semaphore = 0
    /\ task = <<>>
    /\ dispatched = 0
    /\ completed = 0
    /\ results = <<>>
    /\ phase = "idle"
    /\ metrics = <<>>
    /\ stream \in PostResponses
    /\ pos = 0
    /\ now = 1
    /\ request_start = 1
    /\ first_token_time = None
    /\ tokens = 0
    /\ buffer = <<>>
    /\ result = <<>>
    /\ spc = "await"
    /\ trace = NoTrace
    /\ StatIdle

\* the response has not arrived yet
post_wait ==
    /\ spc = "await"
    /\ now - request_start < MaxWait
    /\ now' = now + 1
    /\ UNCHANGED <<steadyVars, pairVars, statVars, driverVars, streamVars>>

\* client.post returns, or raises, and the executor runs to its return
post_return ==
    /\ spc = "await"
    /\ now > request_start
    /\ result' = <<single_request_non_streaming(stream, request_start, now)>>
    /\ spc' = "done"
    /\ UNCHANGED <<steadyVars, pairVars, statVars, driverVars, stream, pos, request_start, first_token_time,
                   tokens, buffer, trace, now>>

PostNext ==
    \/ post_wait
    \/ post_return

PostSpec == PostInit /\ [][PostNext]_vars

\* the event loop runs every coroutine that is ready, a dispatched request
\* eventually completes or times out, and the clock advances; the fairness
\* of run_benchmark_return is written out, the action being enabled exactly
\* when the run is at its gather and every coroutine has returned
FairSpec ==
    /\ Spec
    /\ \A t \in 1..(MaxRequests + MaxConcurrency + 1) :
          /\ WF_vars(t \in Tasks /\ make_request_start(t))
          /\ WF_vars(t \in Tasks /\ \E resp \in ResponsesOf(mode) :
                                        make_request_finish(t, resp))
          /\ WF_vars(t \in Tasks /\ worker_start(t))
          /\ WF_vars(t \in Tasks /\ \E resp \in ResponsesOf(mode) :
                                        worker_resume(t, resp))
    /\ \/ []<>~(phase = "running" /\ GatherReady(task))
       \/ []<><<run_benchmark_return>>_vars
    /\ WF_vars(Tick)

\* ------------------------------------------------ the percentile calculator
\* the values of p: the callers pass 50, 95 and 99; 0 and 100 are the ends
Percents == {0, 50, 95, 99, 100}

\* the lists of numbers a caller can hand to percentile
SampleLists ==
    UNION {[1..n -> {Num(v) : v \in 1..MaxSamples}] : n \in 0..MaxSamples}

\* the caller's list once list.sort() has put it in order in place
data_after_sort(data) == sorted(data)

\* the caller's list once sorted(data) has returned: sorted builds a new list
\* and leaves its argument as it was
data_after_sorted(data) == data

\* a caller holds a list and is about to call percentile
PercentileInit ==
    /\ mode = "non_streaming"
    /\ concurrency = 0
    /\ max_requests = 0
    /\ duration_sec = 0
    /\ start_time = 0
    /\ semaphore = 0
    /\ task = <<>>
    /\ dispatched = 0
    /\ completed = 0
    /\ results = <<>>
    /\ phase = "idle"
    /\ metrics = <<>>
    /\ now = 0
    /\ StreamIdle
    /\ samples \in SampleLists
    /\ calls = <<>>
    /\ execs = <<>>
    /\ frames = <<>>
    /\ steady = <<>>

\* one call percentile(samples, p), from its entry to its return
percentile_call(p) ==
    /\ Len(calls) < MaxCalls
    /\ calls' = Append(calls, [data |-> samples, p |-> p,
                               value |-> percentile(samples, p)])
    /\ samples' = data_after_sorted(samples)
    /\ UNCHANGED <<steadyVars, pairVars, driverVars, streamVars, now>>

PercentileNext == \E p \in Percents : percentile_call(p)

PercentileSpec == PercentileInit /\ [][PercentileNext]_vars

\* ------------------------------------------- two concurrent streaming requests
\* the executors that asyncio.gather runs side by side
Executors == {1, 2}

\* a frame that every call of the coroutine uses
shared_frame(i) == 1

\* request_start, first_token_time, tokens and buffer are local variables:
\* each call of the coroutine has a frame of its own
frame(i) == i

\* the response bodies of the two requests: one line each
PairBodies ==
    {Join(<<l>>) : l \in {<<"data: ", "{c:", "w", "}">>,
                          <<"data: ", "{c:", "SP", "}">>,
                          <<"data: ", "{c:", "w", "SP", "w", "}fin">>,
                          <<"data: ", "[DONE]">>,
                          <<"data: ", "5">>}}

\* what an executor meets at one of its suspension points, at clock value t
Event(kind, t, status, chunk, exc) ==
    [kind |-> kind, t |-> t, status |-> status, chunk |-> chunk, exc |-> exc]

\* the locals as lines 113-115 and 134 set them
NewFrame(t) ==
    [request_start |-> t, first_token_time |-> None, tokens |-> 0,
     buffer |-> <<>>]

\* single_request_streaming from one suspension point to the next, on the
\* locals fr: the locals afterwards and what the call returns, if it returns
executor_step(fr, ev) ==
    IF ev.kind = "start" THEN [frame |-> NewFrame(ev.t), ret |-> <<>>]
    ELSE IF ev.kind = "head"
    THEN [frame |-> fr,
          ret |-> IF ev.status = 200 THEN <<>>
                  ELSE IF ResponseTextReadable("streaming")
                  THEN <<HttpErrorResult("streaming", fr.request_start, ev.t,
                                         ev.status)>>
                  ELSE <<ExceptionResult("streaming", fr.request_start, ev.t,
                                         "ResponseNotRead")>>]
    ELSE IF ev.kind = "chunk"
    THEN LET st == process_chunk([buffer |-> fr.buffer, tokens |-> fr.tokens,
                                  first_token_time |-> fr.first_token_time,
                                  trace |-> NoTrace, raised |-> FALSE],
                                 ev.chunk, ev.t)
         IN  [frame |-> [fr EXCEPT !.buffer = st.buffer,
                                   !.tokens = st.tokens,
                                   !.first_token_time = st.first_token_time],
              ret |-> IF st.raised
                      THEN <<ExceptionResult("streaming", fr.request_start,
                                             ev.t, "AttributeError")>>
                      ELSE <<>>]
    ELSE IF ev.kind = "end"
    THEN [frame |-> fr,
          ret |-> <<StreamingResult(fr.request_start, fr.first_token_time,
                                    fr.tokens, ev.t)>>]
    ELSE [frame |-> fr,
          ret |-> <<ExceptionResult("streaming", fr.request_start, ev.t,
                                    ev.exc)>>]

\* asyncio.gather has been handed the two coroutines; neither has run yet
PairInit ==
    /\ DriverIdle
    /\ StreamIdle
    /\ samples = <<>>
    /\ calls = <<>>
    /\ now = 1
    /\ execs \in [Executors -> {[stream |-> b, pos |-> 0, events |-> <<>>,
                                 spc |-> "pending", result |-> <<>>] :
                                   b \in PairBodies}]
    /\ frames = [i \in Executors |-> NewFrame(0)]
    /\ steady = <<>>

\* executor i runs from its suspension point on the event ev to the next
\* one, or to its return
Resume(i, ev, n, spc_next) ==
    LET out == executor_step(frames[frame(i)], ev)
    IN  /\ frames' = [frames EXCEPT ![frame(i)] = out.frame]
        /\ execs' = [execs EXCEPT ![i].events = Append(@, ev),
                                  ![i].pos = @ + n,
                                  ![i].result = out.ret,
                                  ![i].spc = IF out.ret # <<>> THEN "done"
                                             ELSE spc_next]
        /\ now' = ev.t
        /\ UNCHANGED <<driverVars, streamVars, statVars, steadyVars>>

\* the event loop starts executor i, which runs to its await of the head
pair_start(i) ==
    /\ execs[i].spc = "pending"
    /\ Resume(i, Event("start", now, 0, <<>>, ""), 0, "head")

\* the response head of executor i arrives
pair_head(i, status) ==
    /\ execs[i].spc = "head"
    /\ Resume(i, Event("head", now + 1, status, <<>>, ""), 0, "body")

\* aiter_bytes delivers the next chunk of the body of executor i: chunk_size
\* bytes, or what is left of the body
pair_chunk(i) ==
    /\ execs[i].spc = "body"
    /\ execs[i].pos < Len(execs[i].stream)
    /\ LET n == Min(ChunkSize, Len(execs[i].stream) - execs[i].pos)
       IN  Resume(i, Event("chunk", now + 1, 0,
                           SubSeq(execs[i].stream, execs[i].pos + 1,
                                  execs[i].pos + n), ""), n, "body")

\* aiter_bytes of executor i is exhausted
pair_end(i) ==
    /\ execs[i].spc = "body"
    /\ execs[i].pos = Len(execs[i].stream)
    /\ Resume(i, Event("end", now + 1, 0, <<>>, ""), 0, "done")

\* the transport of executor i fails or times out
pair_failure(i, e) ==
    /\ execs[i].spc \in {"head", "body"}
    /\ Resume(i, Event("fail", now + 1, 0, <<>>, e), 0, "done")

PairNext ==
    \E i \in Executors :
        \/ pair_start(i)
        \/ \E status \in {200, 500} : pair_head(i, status)
        \/ pair_chunk(i)
        \/ pair_end(i)
        \/ pair_failure(i, "ReadTimeout")

PairSpec == PairInit /\ [][PairNext]_vars

\* ------------------------------------------------- bench_vertex.run_steady
\* Time is counted in units of 0.05 s, the drain sleep per unit of
\* concurrency: `await asyncio.sleep(concurrency * 0.05)` sleeps concurrency
\* units.  now is time.perf_counter(), and start is 0.

\* drain: the time run_steady sleeps after its loop, for concurrency c
drain_sleep(c) == c

\* the record one_call returns for request i: "ok" is False when the post
\* raised or the status was not 200
one_call(i, ok) == [i |-> i, ok |-> ok]

\* the worker tasks that have been created and wait on `async with sem`
Waiting == {w \in 1..Len(steady.workers) : steady.workers[w] = "created"}

\* a task the event loop runs before a timer fires: the first waiter on a
\* semaphore that is free
Runnable == Waiting # {} /\ steady.sem > 0

\* the lowest number of a non-empty set of task numbers
First(set) == CHOOSE w \in set : \A v \in set : w <= v

\* run_steady up to its first `while` test
SteadyInit ==
    /\ DriverIdle
    /\ StreamIdle
    /\ samples = <<>>
    /\ calls = <<>>
    /\ execs = <<>>
    /\ frames = <<>>
    /\ now = 0
    /\ \E c \in 1..MaxConcurrency, iv \in 1..MaxInterval, d \in 1..MaxDuration :
          steady = [concurrency |-> c, interval |-> iv, duration_sec |-> d,
                    sem |-> c, results |-> <<>>, workers |-> <<>>,
                    wake |-> 0, phase |-> "loop", file |-> <<>>]

\* one iteration of `while time.perf_counter() - start < duration_sec`:
\* create_task(worker()), whose task is not kept, and sleep for interval
steady_create ==
    /\ steady.phase = "loop"
    /\ now = steady.wake
    /\ ~Runnable
    /\ now < steady.duration_sec
    /\ steady' = [steady EXCEPT !.workers = Append(@, "created"),
                                !.wake = now + steady.interval]
    /\ UNCHANGED <<driverVars, streamVars, statVars, pairVars, now>>

\* the `while` test fails: run_steady goes to sleep for the drain
steady_drain ==
    /\ steady.phase = "loop"
    /\ now = steady.wake
    /\ ~Runnable
    /\ now >= steady.duration_sec
    /\ steady' = [steady EXCEPT !.phase = "drain",
                                !.wake = now + drain_sleep(steady.concurrency)]
    /\ UNCHANGED <<driverVars, streamVars, statVars, pairVars, now>>

\* worker: `async with sem` is entered and one_call posts the request
worker_acquire ==
    /\ steady.phase \in {"loop", "drain"}
    /\ Runnable
    /\ steady' = [steady EXCEPT !.workers[First(Waiting)] = "calling",
                                !.sem = @ - 1]
    /\ UNCHANGED <<driverVars, streamVars, statVars, pairVars, now>>

\* worker w: one_call returns its record, results.append(res), and the
\* semaphore is released
worker_append(w, ok) ==
    /\ steady.phase \in {"loop", "drain"}
    /\ w \in 1..Len(steady.workers)
    /\ steady.workers[w] = "calling"
    /\ steady' = [steady EXCEPT !.workers[w] = "done",
                                !.results = Append(@, one_call(w, ok)),
                                !.sem = @ + 1]
    /\ UNCHANGED <<driverVars, streamVars, statVars, pairVars, now>>

\* time passes while run_steady sleeps and no task can run
steady_sleep ==
    /\ steady.phase \in {"loop", "drain"}
    /\ now < steady.wake
    /\ ~Runnable
    /\ now' = now + 1
    /\ UNCHANGED <<driverVars, streamVars, statVars, pairVars, steadyVars>>

\* the drain sleep is over: the `async with httpx.AsyncClient` block is left
\* and the results are written to out_path, one line each
steady_write ==
    /\ steady.phase = "drain"
    /\ now = steady.wake
    /\ ~Runnable
    /\ steady' = [steady EXCEPT !.phase = "written", !.file = steady.results]
    /\ UNCHANGED <<driverVars, streamVars, statVars, pairVars, now>>

SteadyNext ==
    \/ steady_create
    \/ steady_drain
    \/ worker_acquire
    \/ \E w \in 1..Len(steady.workers) : \E ok \in BOOLEAN : worker_append(w, ok)
    \/ steady_sleep
    \/ steady_write

SteadySpec == SteadyInit /\ [][SteadyNext]_vars

\* ------------------------------------------------------------------ claims
Finished == phase \in {"returned", "ValueError"}

\* every entry a coroutine has produced so far
Produced == UNION {{task[t].ret[i] : i \in 1..Len(task[t].ret)} : t \in Tasks}

\* a response that is not a productive one: transport error, timeout,
\* non-200 status or zero tokens
FailedResponse(resp) == resp.exc # "" \/ resp.status # 200 \/ resp.tokens = 0

\* C1: with concurrency C >= 1, in every reachable state of a count-based or
\* a duration-based run at most C requests are dispatched and not completed.
C1_InFlightBounded ==
    concurrency >= 1 => Cardinality(InFlight) <= concurrency

C1_Witness ==
    /\ concurrency >= 1
    /\ Cardinality(InFlight) = concurrency
    /\ \E t \in Tasks : task[t].pc = "pending"

\* C2: a count-based run with max_requests = N >= 1 starts exactly N request
\* executions, each holding a permit of the gate, and reaches aggregation only
\* when all N have completed, with exactly N results collected.
C2_CountBasedRun ==
    CountBased =>
        /\ dispatched <= max_requests
        /\ semaphore + Cardinality(InFlight) = concurrency
        /\ Finished => /\ dispatched = max_requests
                       /\ completed = max_requests
                       /\ Len(results) = max_requests

C2_Witness ==
    /\ CountBased
    /\ phase = "returned"
    /\ max_requests >= 2
    /\ concurrency < max_requests
    /\ Len(results) = max_requests

\* C3: in a duration-based run every request is started before the deadline
\* start_time + duration_sec, and a request in flight when the deadline is
\* reached completes and has its result among the collected results.
C3_DeadlineGatesStart ==
    ~CountBased =>
        /\ \A t \in InFlight : task[t].start < end_time
        /\ Finished => /\ InFlight = {}
                       /\ {results[i].id : i \in 1..Len(results)} = 1..dispatched
                       /\ Len(results) = dispatched

C3_Witness ==
    /\ ~CountBased
    /\ phase = "returned"
    /\ \E i \in 1..Len(results) : results[i].late

\* C4: a request that meets a transport error, a timeout, a non-200 status or
\* zero tokens yields a result with success = false, the executor does not
\* raise, no coroutine ends before its own stop condition and no dispatched
\* request is missing from the collected results.
C4_FailureNeverAborts ==
    /\ phase # "raised"
    /\ \A t \in Tasks : task[t].pc # "raised"
    /\ \A e \in Produced : FailedResponse(e.resp) => ~e.res.success
    /\ \A t \in Tasks :
          task[t].pc = "returned" =>
              IF CountBased THEN Len(task[t].ret) = 1 ELSE now >= end_time
    /\ Finished => Len(results) = dispatched

C4_Witness ==
    /\ phase = "returned"
    /\ \E i, j \in 1..Len(results) :
          /\ results[i].resp.exc = "ReadTimeout"
          /\ ~results[i].res.success
          /\ results[j].seq > results[i].seq
          /\ results[j].id > results[i].id
          /\ results[j].res.success

\* C5: every bounded run eventually leaves run_benchmark, for every
\* concurrency the driver accepts.
C5_RunTerminates == <>(phase # "running")

\* C6: the collected results are in completion order.
C6_CompletionOrder ==
    phase = "returned" =>
        \A i, j \in 1..Len(results) : i < j => results[i].seq < results[j].seq

\* C6 (amended): the collected results are ordered by coroutine, and within
\* one coroutine by completion; in a count-based run the i-th result is the
\* one of the i-th coroutine.
C6_TaskOrder ==
    phase = "returned" =>
        /\ \A i, j \in 1..Len(results) :
              i < j => \/ results[i].task < results[j].task
                       \/ /\ results[i].task = results[j].task
                          /\ results[i].seq < results[j].seq
        /\ CountBased => \A i \in 1..Len(results) : results[i].task = i

C6_Witness ==
    /\ phase = "returned"
    /\ \E i, j \in 1..Len(results) : i < j /\ results[i].seq > results[j].seq

\* the locals of single_request_streaming before the first chunk
NoChunkYet ==
    [buffer |-> <<>>, tokens |-> 0, first_token_time |-> None,
     trace |-> NoTrace, raised |-> FALSE]

\* what a result says about the parse: the token count, the success flag and
\* the line whose arrival fixed time_to_first_token (0 when it is absent)
OutcomeOf(res, tr) ==
    [tokens_generated |-> res.tokens_generated, success |-> res.success,
     first |-> IF res.ttft_ms = None THEN 0 ELSE tr.first_line]

\* the outcome of the executor when the whole body arrives as one chunk
WholeOutcome(body) ==
    LET st == IF body = <<>> THEN NoChunkYet
              ELSE process_chunk(NoChunkYet, body, 3)
    IN  IF st.raised
        THEN OutcomeOf(ExceptionResult("streaming", 1, 3, "AttributeError"),
                       st.trace)
        ELSE OutcomeOf(StreamingResult(1, st.first_token_time, st.tokens, 4),
                       st.trace)

\* C7: the outcome of the streaming executor (token count, success, the
\* event that fixes time_to_first_token) is the same for every way of
\* splitting the body into chunks.
C7_ChunkingIrrelevant ==
    spc = "done" => OutcomeOf(result[1], trace) = WholeOutcome(stream)

\* C8: once the sentinel line has been read, nothing that follows it changes
\* tokens or first_token_time, and the request ends without an error.
C8_SentinelEndsProcessing ==
    trace.stop = "sentinel" =>
        /\ tokens = trace.stop_tokens
        /\ first_token_time = trace.stop_first
        /\ spc = "done" => /\ result[1].error = NoError
                           /\ result[1].tokens_generated = trace.stop_tokens

\* C9: an event with a finish_reason has its content counted and ends
\* processing: the result is the one of the body cut after that event.
C9_FinishEndsProcessing ==
    (trace.stop = "finish" /\ spc = "done") =>
        /\ trace.stop_tokens >= 2
        /\ result[1].error = NoError
        /\ result[1].tokens_generated = trace.stop_tokens
        /\ result[1].success = (trace.stop_tokens > 0)
        /\ result[1].ttft_ms = IF trace.stop_first = None THEN None
                                ELSE (trace.stop_first - request_start) * 1000

\* C10: first_token_time is fixed by the first event whose content holds a
\* character other than whitespace; an event with empty or whitespace-only
\* content does not fix it.
C10_FirstTokenNeedsWord ==
    first_token_time # None => trace.first_words > 0

\* C11: within one streaming request first_token_time is assigned at most
\* once: once it is set, no later event of the request, with content or
\* without, assigns it again before the result is built.
C11_FirstTokenSetOnce ==
    /\ trace.first_sets <= 1
    /\ (first_token_time # None <=> trace.first_sets = 1)

\* a one-word event fixed first_token_time in the first chunk and a later
\* event with content was counted in the second chunk
C11_Witness ==
    /\ spc = "done"
    /\ trace.chunks = 2
    /\ trace.lines = 2
    /\ trace.first_line = 1
    /\ trace.first_words = 1
    /\ tokens >= 2
    /\ first_token_time = request_start + 2
    /\ result[1].ttft_ms = 2000

\* the results the non-streaming executor builds for a request dispatched at
\* t0 whose response is complete at most MaxChunks + 2 units later
NonStreamingResults(t0) ==
    {single_request("non_streaming", resp, t0, t).result :
        resp \in Responses, t \in (t0 + 1)..(t0 + MaxChunks + 2)}

\* C12: every result of the streaming executor and every result of the
\* non-streaming executor has ttft_ms absent or ttft_ms <= total_time_ms.
C12_TtftWithinTotal ==
    /\ result # <<>> =>
          \/ result[1].ttft_ms = None
          \/ result[1].ttft_ms <= result[1].total_time_ms
    /\ \A r \in NonStreamingResults(request_start) :
          r.ttft_ms = None \/ r.ttft_ms <= r.total_time_ms

\* a streaming result whose first token came before the last chunk
C12_Witness ==
    /\ spc = "done"
    /\ result[1].success
    /\ result[1].ttft_ms # None
    /\ result[1].ttft_ms < result[1].total_time_ms
    /\ trace.chunks >= 2

\* C13: a line that is not a well-formed event (a comment, an empty line,
\* text that is not JSON, JSON of another shape) is skipped: it does not
\* fail the request, and the tokens of the events around it are reported.
C13_MalformedLineSkipped ==
    spc = "done" =>
        /\ result[1].error = NoError
        /\ result[1].tokens_generated = tokens
        /\ result[1].success = (tokens > 0)

\* C14: for every result either executor produces, success is true exactly
\* when tokens_generated > 0, and then the request completed with status 200
\* and without a transport failure.
C14_SuccessIffTokens ==
    \A e \in Produced :
        /\ e.res.success <=> e.res.tokens_generated > 0
        /\ e.res.success => e.resp.status = 200 /\ e.resp.exc = ""

\* a finished run with a successful result and a result of a request that
\* was answered with status 200 and no tokens
C14_Witness ==
    /\ phase = "returned"
    /\ \E i, j \in 1..Len(results) :
          /\ results[i].res.success
          /\ results[i].res.tokens_generated > 0
          /\ results[j].resp.status = 200
          /\ ~results[j].res.success

\* C15: a streaming result with tokens_generated = 0 has ttft_ms absent.
C15_NoTokensNoTtft ==
    (result # <<>> /\ result[1].tokens_generated = 0) =>
        result[1].ttft_ms = None

\* C16: for every result either executor produces, error is present exactly
\* when success is false.
C16_ErrorIffFailure ==
    \A e \in Produced : e.res.error # NoError <=> ~e.res.success

\* C16 (amended): a result with an error string has success = false, and the
\* results with success = false and no error string are exactly those of the
\* requests answered with status 200 that yielded no token.
C16_ErrorOnlyIfFailure ==
    \A e \in Produced :
        /\ e.res.error # NoError => ~e.res.success
        /\ (~e.res.success /\ e.res.error = NoError)
              <=> (e.resp.exc = "" /\ e.resp.status = 200 /\ e.resp.tokens <= 0)

\* a finished run with a failed result that has no error string and a
\* failed result that has one
C16_Witness ==
    /\ phase = "returned"
    /\ \E i, j \in 1..Len(results) :
          /\ ~results[i].res.success
          /\ results[i].res.error = NoError
          /\ ~results[j].res.success
          /\ results[j].res.error # NoError

\* what C17 expects of a result for a response with a status other than 200
\* that took `elapsed` units of time
IsHttpErrorResult(r, status, elapsed) ==
    /\ ~r.success
    /\ r.tokens_generated = 0
    /\ r.ttft_ms = None
    /\ r.total_time_ms = elapsed * 1000
    /\ r.error = <<"HTTP", status, "text">>

\* C17: when the response status is not 200, the streaming executor, and
\* likewise the non-streaming executor, returns success = false,
\* tokens_generated = 0, ttft_ms absent, total_time_ms the elapsed time and
\* an error string made of the status code and the text of the body.
C17_HttpErrorReported ==
    /\ spc = "http_error" =>
          IsHttpErrorResult(result[1], 500, now - request_start)
    /\ \A resp \in Responses :
          (resp.exc = "" /\ resp.status # 200) =>
              IsHttpErrorResult(single_request("non_streaming", resp,
                                               request_start, now).result,
                                resp.status, now - request_start)

\* C18: a non-streaming request answered with status 200 and a JSON object
\* reports tokens_generated = usage.completion_tokens, or 0 when usage or the
\* field is absent, with success exactly when that count is > 0; and every
\* non-streaming result, successful or not, has ttft_ms absent.
C18_NonStreamingTokens ==
    result # <<>> =>
        /\ result[1].ttft_ms = None
        /\ (/\ stream.exc = ""
            /\ stream.status = 200
            /\ stream.body.json # "notjson") =>
              LET count == IF /\ stream.body.json = "object"
                              /\ stream.body.usage = "object"
                              /\ stream.body.ct_kind = "number"
                           THEN stream.body.ct ELSE 0
              IN  /\ result[1].tokens_generated = count
                  /\ result[1].success = (count > 0)

\* a 200 response whose usage object lacks completion_tokens has been turned
\* into a result without error
C18_Witness ==
    /\ spc = "done"
    /\ mode = "non_streaming"
    /\ stream.status = 200
    /\ stream.body.usage = "object"
    /\ stream.body.ct_kind = "absent"
    /\ result[1].tokens_generated = 0
    /\ ~result[1].success
    /\ result[1].error = NoError

\* C19: aggregating an empty result list raises ValueError and returns no
\* AggregateMetrics; aggregating a non-empty list returns an AggregateMetrics,
\* also when every result failed.
C19_EmptyAggregationFails ==
    /\ calculate_metrics(<<>>, now - start_time, mode).raised = "ValueError"
    /\ (phase # "running" /\ phase # SemaphoreValueError) =>
          IF results = <<>>
          THEN phase = "ValueError" /\ metrics = <<>>
          ELSE /\ phase = "returned"
               /\ metrics # <<>>
               /\ metrics[1].total_requests = Len(results)
               /\ metrics[1].failed_requests
                     = Cardinality({i \in 1..Len(results) :
                                       ~results[i].res.success})

\* a finished run of two requests that both failed, with its AggregateMetrics
C19_Witness ==
    /\ phase = "returned"
    /\ Len(results) = 2
    /\ \A i \in 1..Len(results) : ~results[i].res.success
    /\ metrics # <<>>
    /\ metrics[1].successful_requests = 0
    /\ metrics[1].failed_requests = 2

\* C20: run_benchmark fails only when the result list ends up empty: a run
\* in which a request was executed returns an AggregateMetrics, and the only
\* error run_benchmark raises is the one of the empty list.
C20_OnlyEmptyCollectionError ==
    /\ phase \in {"running", "returned", "ValueError"}
    /\ phase = "ValueError" => results = <<>>
    /\ (phase # "running" /\ dispatched > 0) =>
          phase = "returned" /\ metrics # <<>>

\* a finished run none of whose results is a success
AllFailed ==
    /\ phase = "returned"
    /\ \A i \in 1..Len(results) : ~results[i].res.success

\* C21: when every result failed, success_rate is 0, total_tokens_generated
\* is 0, requests_per_second is total_requests / duration, and every latency
\* and throughput statistic is absent, not the number 0.
C21_AllFailedStatsAbsent ==
    AllFailed =>
        LET m == metrics[1]
        IN  /\ m.success_rate = Num(0)
            /\ m.total_tokens_generated = 0
            /\ m.requests_per_second
                  = Ratio(m.total_requests, m.total_duration_sec)
            /\ \A x \in {m.avg_total_time_ms, m.p50_total_time_ms,
                          m.p95_total_time_ms, m.p99_total_time_ms,
                          m.avg_tokens_per_second, m.p50_tokens_per_second,
                          m.p95_tokens_per_second} : x = Absent

\* C21 (amended): when every result failed, success_rate is 0,
\* total_tokens_generated is 0, requests_per_second is total_requests /
\* duration, every statistic of total time and of throughput is the number 0,
\* and the statistics of time to first token are absent.
C21_AllFailedStatsZero ==
    AllFailed =>
        LET m == metrics[1]
        IN  /\ m.success_rate = Num(0)
            /\ m.total_tokens_generated = 0
            /\ m.total_duration_sec > 0
            /\ m.requests_per_second
                  = Ratio(m.total_requests, m.total_duration_sec)
            /\ m.aggregate_tokens_per_second = Num(0)
            /\ \A x \in {m.avg_total_time_ms, m.p50_total_time_ms,
                          m.p95_total_time_ms, m.p99_total_time_ms,
                          m.avg_tokens_per_second, m.p50_tokens_per_second,
                          m.p95_tokens_per_second} : x = Num(0)
            /\ \A x \in {m.avg_ttft_ms, m.p50_ttft_ms, m.p95_ttft_ms} :
                  x = Absent

\* a run of a timed-out request and a request answered with status 500
C21_Witness ==
    /\ AllFailed
    /\ \E i, j \in 1..Len(results) :
          /\ results[i].resp.exc = "ReadTimeout"
          /\ results[j].resp.status = 500
    /\ metrics[1].p99_total_time_ms = Num(0)
    /\ metrics[1].requests_per_second # Num(0)

\* C22: in every aggregate success_rate is successful_requests /
\* total_requests, a ratio between 0 and 1, 1 when every request succeeded.
C22_SuccessRateIsRatio ==
    phase = "returned" =>
        LET m == metrics[1]
        IN  /\ m.success_rate = Ratio(m.successful_requests, m.total_requests)
            /\ ~Less(m.success_rate, Num(0))
            /\ ~Less(Num(1), m.success_rate)

\* C22 (amended): in every aggregate success_rate is the percentage
\* 100 * successful_requests / total_requests, between 0 and 100, 100 when
\* every request succeeded.
C22_SuccessRateIsPercentage ==
    phase = "returned" =>
        LET m == metrics[1]
        IN  /\ m.success_rate
                  = Ratio(100 * m.successful_requests, m.total_requests)
            /\ ~Less(m.success_rate, Num(0))
            /\ ~Less(Num(100), m.success_rate)
            /\ m.successful_requests = m.total_requests
                  <=> m.success_rate = Num(100)

\* one of two requests succeeded: the rate is 50
C22_Witness ==
    /\ phase = "returned"
    /\ metrics[1].total_requests = 2
    /\ metrics[1].successful_requests = 1
    /\ metrics[1].success_rate = Num(50)

\* the sum of tokens_generated over the collected results that satisfy keep
TokensOver(keep(_)) ==
    sum(Comprehension(results, LAMBDA e : e.res.tokens_generated, keep))

C24_CountsAddUp ==
    phase = "returned" =>
        LET m == metrics[1]
            idx == 1..Len(results)
        IN  /\ m.successful_requests
                  = Cardinality({i \in idx : results[i].res.success})
            /\ m.failed_requests
                  = Cardinality({i \in idx : ~results[i].res.success})
            /\ m.successful_requests + m.failed_requests = m.total_requests
            /\ m.total_requests = Len(results)
            /\ m.total_requests = dispatched

\* a duration-based run with a successful result, a failed result with an
\* error string and a failed result without one
C24_Witness ==
    /\ phase = "returned"
    /\ ~CountBased
    /\ metrics[1].successful_requests >= 1
    /\ metrics[1].failed_requests >= 1
    /\ \E i \in 1..Len(results) :
          ~results[i].res.success /\ results[i].res.error = NoError

\* the TTFT values of the collected results that are successful and have one
SuccessfulTtft ==
    {results[i].res.ttft_ms : i \in {j \in 1..Len(results) :
        results[j].res.success /\ results[j].res.ttft_ms # None}}

\* C25: the TTFT statistics of an aggregate are all absent when no successful
\* result has ttft_ms, as in every non-streaming run, and all present
\* otherwise, computed over the successful results that have it: each lies
\* between the least and the greatest of their values.
C25_TtftStatistics ==
    phase = "returned" =>
        LET m == metrics[1]
            stats == {m.avg_ttft_ms, m.p50_ttft_ms, m.p95_ttft_ms}
        IN  /\ mode = "non_streaming" => SuccessfulTtft = {}
            /\ SuccessfulTtft = {} => stats = {Absent}
            /\ SuccessfulTtft # {} =>
                  \A x \in stats :
                      /\ x # Absent
                      /\ \E lo, hi \in SuccessfulTtft :
                            ~Less(x, Num(lo)) /\ ~Less(Num(hi), x)
            /\ Cardinality(SuccessfulTtft) = 1 =>
                  \A v \in SuccessfulTtft : stats = {Num(v)}

\* a streaming run with a successful result and a failed result whose
\* ttft_ms is present
C25_Witness ==
    /\ phase = "returned"
    /\ mode = "streaming"
    /\ metrics[1].avg_ttft_ms # Absent
    /\ \E i, j \in 1..Len(results) :
          /\ results[i].res.success
          /\ ~results[j].res.success
          /\ results[j].res.ttft_ms # None

\* the samples of a list in ascending order, found among its rearrangements
Ascending(data) ==
    CHOOSE s \in {[i \in 1..Len(data) |-> data[f[i]]] :
                     f \in Permutations(1..Len(data))} :
        \A i \in 1..(Len(s) - 1) : ~Less(s[i + 1], s[i])

\* the standard median: the middle sample of an odd number of samples, the
\* average of the two middle samples of an even number
Median(data) ==
    LET s == Ascending(data)
        n == Len(s)
    IN  IF n % 2 = 1 THEN s[(n + 1) \div 2]
        ELSE Times(Plus(s[n \div 2], s[n \div 2 + 1]), Ratio(1, 2))

\* C26: for every non-empty list of samples, percentile(data, 0) is the
\* least sample, percentile(data, 100) the greatest, and percentile(data, 50)
\* the standard median.
C26_PercentileEnds ==
    \A i \in 1..Len(calls) :
        LET c == calls[i] IN
        c.data # <<>> =>
            /\ c.p = 0 => c.value = Ascending(c.data)[1]
            /\ c.p = 100 => c.value = Ascending(c.data)[Len(c.data)]
            /\ c.p = 50 => c.value = Median(c.data)

\* the median of an even number of samples that came out of order and whose
\* two middle samples differ
C26_Witness ==
    \E i \in 1..Len(calls) :
        /\ calls[i].p = 50
        /\ Len(calls[i].data) = 2
        /\ Less(calls[i].data[2], calls[i].data[1])
        /\ calls[i].value = Ratio(3, 2)

\* C27: percentile is pure: two calls with the same samples and the same p
\* return the same value, the value is the same for every order in which the
\* samples are supplied, and the caller's list is as it was after each call.
C27_PercentilePure ==
    /\ \A i, j \in 1..Len(calls) :
          (calls[i].data = calls[j].data /\ calls[i].p = calls[j].p)
              => calls[i].value = calls[j].value
    /\ \A i \in 1..Len(calls) :
          /\ \A f \in Permutations(1..Len(calls[i].data)) :
                percentile([k \in 1..Len(calls[i].data) |-> calls[i].data[f[k]]],
                           calls[i].p) = calls[i].value
          /\ calls[i].data = samples

\* two calls with the same p on a list that came out of order
C27_Witness ==
    /\ Len(calls) = 2
    /\ calls[1].p = calls[2].p
    /\ calls[1].data = calls[2].data
    /\ Len(samples) = 3
    /\ Less(samples[3], samples[1])
    /\ Less(samples[1], samples[2])

\* C28: the tokens_per_second of every RequestResult is its tokens_generated
\* divided by its total time in seconds when that time is positive, and 0
\* otherwise; it is 0 whenever tokens_generated is 0, and 10 tokens over 2
\* seconds give 5.
C28_TokensPerSecond ==
    /\ \A e \in Produced :
          /\ e.res.tokens_per_second =
                IF e.res.total_time_ms > 0
                THEN Ratio(e.res.tokens_generated * 1000, e.res.total_time_ms)
                ELSE Num(0)
          /\ e.res.tokens_generated = 0 => e.res.tokens_per_second = Num(0)
    /\ StreamingResult(1, None, 10, 3).tokens_per_second = Num(5)
    /\ NonStreamingResult(1, 10, 3).tokens_per_second = Num(5)

\* a streaming result of 2 tokens over 2 seconds, at 1 token per second, and
\* a result without tokens
C28_Witness ==
    /\ \E e \in Produced :
          /\ e.res.mode = "streaming"
          /\ e.res.tokens_generated = 2
          /\ e.res.total_time_ms = 2000
          /\ e.res.tokens_per_second = Num(1)
    /\ \E e \in Produced : e.res.tokens_generated = 0

RECURSIVE Alone(_, _)
\* what a call returns when it meets the events evs with no other call
\* running: the steps of the executor on locals that nothing else touches
Alone(fr, evs) ==
    IF evs = <<>> THEN <<>>
    ELSE LET out == executor_step(fr, evs[1])
         IN  IF out.ret # <<>> THEN out.ret
             ELSE Alone(out.frame, Tail(evs))

\* C29: in every interleaving of two concurrent streaming requests at their
\* suspension points, what each request returns (token count, TTFT, success,
\* error) is what it returns on its own response events and their timing
\* with no other request running.
C29_NoSharedState ==
    \A i \in Executors :
        execs[i].spc # "pending" =>
            execs[i].result = Alone(NewFrame(0), execs[i].events)

\* both requests have returned a successful result, with different token
\* counts and TTFT, and a chunk of each arrived between two chunks or the
\* start and the end of the other
C29_Witness ==
    /\ \A i \in Executors : execs[i].result # <<>> /\ execs[i].result[1].success
    /\ execs[1].result[1].tokens_generated # execs[2].result[1].tokens_generated
    /\ execs[1].result[1].ttft_ms # execs[2].result[1].ttft_ms
    /\ \A i, j \in Executors :
          i # j =>
              \E a, b \in 1..Len(execs[i].events), c \in 1..Len(execs[j].events) :
                  /\ execs[j].events[c].kind = "chunk"
                  /\ execs[i].events[a].t < execs[j].events[c].t
                  /\ execs[j].events[c].t < execs[i].events[b].t

C31_WorkConserving ==
    (/\ CountBased
     /\ phase = "running"
     /\ Cardinality(InFlight) < concurrency
     /\ \E t \in Tasks : task[t].pc = "pending")
        => \E t \in Tasks : task[t].pc = "pending" /\ ENABLED make_request_start(t)

\* a request is in flight, another has not started, and a permit is free
C31_Witness ==
    /\ CountBased
    /\ phase = "running"
    /\ Cardinality(InFlight) = 1
    /\ concurrency = 2
    /\ \E t \in Tasks : task[t].pc = "pending" /\ ENABLED make_request_start(t)

\* C32: a failed request is not issued again: in both kinds of run every
\* request dispatched gives one collected result, none lost and none
\* duplicated, whatever the number of failures; while the run lasts the
\* requests dispatched are those completed and those in flight.
C32_OneResultPerAttempt ==
    /\ phase = "running" => dispatched = completed + Cardinality(InFlight)
    /\ Finished =>
          /\ Len(results) = dispatched
          /\ \A k \in 1..dispatched :
                Cardinality({i \in 1..Len(results) : results[i].id = k}) = 1

\* a run that dispatched two requests, both of which failed, and collected
\* their two results
C32_Witness ==
    /\ Finished
    /\ dispatched = 2
    /\ Len(results) = 2
    /\ \A i \in 1..2 : ~results[i].res.success /\ FailedResponse(results[i].resp)
    /\ results[1].res.error # NoError

RECURSIVE TerminatedLines(_)
\* the lines of a body that end with a newline, in order, without it
TerminatedLines(body) ==
    LET nl == find_newline(body)
    IN  IF nl = 0 THEN <<>>
        ELSE <<SubSeq(body, 1, nl - 1)>>
                 \o TerminatedLines(SubSeq(body, nl + 1, Len(body)))

\* what one line is as an event: "sentinel", or the parse of its payload
EventOf(line) ==
    LET l == strip(decode(line))
    IN  IF l = <<>> THEN [kind |-> "skip", content |-> <<>>, finish |-> FALSE]
        ELSE IF l = <<"data: ", "[DONE]">>
        THEN [kind |-> "sentinel", content |-> <<>>, finish |-> FALSE]
        ELSE json_loads(IF l[1] = "data: " THEN Tail(l) ELSE l)

RECURSIVE FragmentWords(_)
\* the words of the content fragments of the lines up to the line at which
\* processing stops: the sentinel, or an event with a finish_reason, whose
\* own content is counted
FragmentWords(lines) ==
    IF lines = <<>> THEN 0
    ELSE LET ev == EventOf(lines[1])
         IN  IF ev.kind = "sentinel" THEN 0
             ELSE IF ev.kind = "event"
             THEN split_len(ev.content)
                      + IF ev.finish THEN 0 ELSE FragmentWords(Tail(lines))
             ELSE FragmentWords(Tail(lines))

\* C33: the tokens_generated of a streaming request that ends without an
\* error is the number of whitespace-delimited words of the content
\* fragments of its events up to the end of the stream or to the line at
\* which processing stops; a fragment without whitespace counts as one and
\* an event without content adds nothing.
C33_TokensAreWordCount ==
    (spc = "done" /\ result[1].error = NoError) =>
        result[1].tokens_generated = FragmentWords(TerminatedLines(stream))

\* C34: a streaming request answered with status 200 whose body has been
\* read to its end and that reports no token is recorded with success =
\* false and no error string, while a transport failure and a status other
\* than 200 are always recorded with an error string.
C34_ZeroTokenWithoutError ==
    /\ (spc = "done" /\ result[1].tokens_generated = 0) =>
          /\ ~result[1].success
          /\ result[1].error = NoError
    /\ spc \in {"failed", "http_error"} =>
          /\ ~result[1].success
          /\ result[1].error # NoError

\* the linear interpolation at rank r = (n - 1) * p / 100 over the samples
\* in ascending order, with its two bracketing samples
Interpolation(data, p) ==
    LET s == Ascending(data)
        n == Len(s)
        r == Ratio((n - 1) * p, 100)
        f == r[1] \div r[2]
        w == Minus(r, Num(f))
        below == s[f + 1]
        above == s[Min(f + 1, n - 1) + 1]
    IN  [below |-> below, above |-> above,
         value |-> Plus(Times(below, Minus(Num(1), w)), Times(above, w))]

\* C35: for a non-empty list of n samples, percentile returns the linear
\* interpolation at rank (n - 1) * p / 100 over the sorted samples; the value
\* lies between the two bracketing samples and does not decrease when p
\* grows; p50 of [100, 120, 130, 150] is 125.
C35_PercentileInterpolates ==
    /\ \A i \in 1..Len(calls) :
          LET c == calls[i] IN
          c.data # <<>> =>
              /\ c.value = Interpolation(c.data, c.p).value
              /\ ~Less(c.value, Interpolation(c.data, c.p).below)
              /\ ~Less(Interpolation(c.data, c.p).above, c.value)
              /\ \A j \in 1..Len(calls) :
                    (calls[j].data = c.data /\ c.p <= calls[j].p)
                        => ~Less(calls[j].value, c.value)
    /\ percentile(<<Num(100), Num(120), Num(130), Num(150)>>, 50) = Num(125)

\* two calls on a list of three samples that came out of order: p95, whose
\* value 29/10 lies strictly between two samples, and p50
C35_Witness ==
    /\ Len(calls) = 2
    /\ samples = <<Num(3), Num(1), Num(2)>>
    /\ calls[1].p = 50 /\ calls[1].value = Num(2)
    /\ calls[2].p = 95 /\ calls[2].value = Ratio(29, 10)

\* the results of the run that carry an error string
WithError == {e \in Produced : e.res.error # NoError}

Newlines(text) == Cardinality({i \in 1..Len(text) : text[i] = "NL"})

\* C37: only lines ended by a newline are read as events: at every step the
\* lines taken from the buffer are at most the newlines it holds, tokens and
\* first_token_time change only when a line is taken, and when the body ends
\* the result is built from tokens and first_token_time as they are, what is
\* left in the buffer being dropped.
C37_TailDiscarded ==
    [][/\ trace'.lines - trace.lines
             <= Newlines(buffer \o SubSeq(stream, pos + 1, pos'))
       /\ (tokens' # tokens \/ first_token_time' # first_token_time)
             => trace'.lines > trace.lines
       /\ (spc = "body" /\ spc' = "done" /\ pos' = pos) =>
             /\ result'[1].error = NoError
             /\ result'[1].tokens_generated = tokens
             /\ result'[1].ttft_ms = IF first_token_time = None THEN None
                                     ELSE (first_token_time - request_start) * 1000
             /\ buffer' = buffer]_vars

\* the body has ended with a one-word event without its newline in the
\* buffer, after a line that was read: the result counts the line only
C37_Witness ==
    /\ spc = "done"
    /\ pos = Len(stream)
    /\ buffer = <<"data: ", "{c:", "w", "}">>
    /\ trace.lines = 1
    /\ result[1].error = NoError
    /\ result[1].tokens_generated = 1

\* C38: when run_steady has closed the client and written the file, every
\* request whose task was created has completed and appended its record, and
\* the file holds exactly one record per request started.
C38_EveryStartedRequestRecorded ==
    steady.phase = "written" =>
        /\ \A w \in 1..Len(steady.workers) : steady.workers[w] = "done"
        /\ Len(steady.file) = Len(steady.workers)
        /\ \A w \in 1..Len(steady.workers) :
              Cardinality({k \in 1..Len(steady.file) : steady.file[k].i = w}) = 1

====
